---- MODULE Spec2Model ----
(***************************************************************************)
(* Model of the landing page script static/js/tci_landing.js: the chat     *)
(* demo widget (tciMoamoaApp.tciChatMessages, tciIsTyping, the reply       *)
(* timer, the rendered markup) and the page initialisation it runs in.     *)
(*                                                                         *)
(* Strings are sequences of characters.  The Hangul syllables of the       *)
(* source are written in Revised Romanization, one syllable per            *)
(* character: "gong" "chaek" is the two-character keyword of line 169.     *)
(***************************************************************************)
EXTENDS Naturals, Sequences, FiniteSets, TLC

VARIABLES
    dom,              \* ids of the elements the page holds (fixed by the page)
    quickText,        \* text content of #tci-quick-input (fixed by the page)
    ready,            \* the $(document).ready handler has run
    handlers,         \* initializers that ran to their end and bound their handlers
    tciChatMessages,  \* tciMoamoaApp.tciChatMessages
    tciIsTyping,      \* tciMoamoaApp.tciIsTyping
    timers,           \* pending setTimeout callbacks, each the tciInputText it closes over
    html,             \* markup inside #tci-chat-messages
    now,              \* the clock Date.now() reads, in ms
    tciMsgIds,        \* the id of each message: tciMsgIds[i] is tciChatMessages[i].id
    tciMobileMenuOpen, \* tciMoamoaApp.tciMobileMenuOpen
    menuHidden,       \* #tci-mobile-menu has the class hidden
    toggleIcon,       \* the icon inside #tci-mobile-menu-toggle
    policyData,       \* window.tciMoamoaPolicyData (fixed by the page)
    modalHidden,      \* #tci-policy-modal has the class hidden
    modalTitle,       \* text of #tci-modal-title
    modalContent,     \* text of #tci-modal-content
    bodyOverflow,     \* document.body.style.overflow
    location,         \* location.href
    lastOp,           \* history: the handler that ran last and how it ended
    submitted,        \* history: the last accepted submission, and the list before it
    lastOpened        \* history: the policy type of the last open click

chatVars == <<tciChatMessages, tciIsTyping, timers, html>>
pageVars == <<dom, quickText>>
clockVars == <<now, tciMsgIds>>
histVars == <<lastOp, submitted>>
menuVars == <<tciMobileMenuOpen, menuHidden, toggleIcon>>
modalVars == <<modalHidden, modalTitle, modalContent, bodyOverflow, lastOpened>>
widgetVars == <<menuVars, policyData, modalVars, location>>
chatState == <<chatVars, clockVars, submitted>>
vars == <<dom, quickText, ready, handlers, tciChatMessages, tciIsTyping, timers, html,
          now, tciMsgIds, tciMobileMenuOpen, menuHidden, toggleIcon, policyData,
          modalHidden, modalTitle, modalContent, bodyOverflow, location,
          lastOp, submitted, lastOpened>>

----------------------------------------------------------------------------
(* Bounds *)

\* accepted submissions offered in one session
MaxSends == 2

----------------------------------------------------------------------------
(* Strings *)

\* String.prototype.trim strips these from both ends
WhiteSpace == {" ", "\t", "\n"}

RECURSIVE TrimLeft(_)
TrimLeft(s) ==
    IF s = <<>> THEN <<>>
    ELSE IF Head(s) \in WhiteSpace THEN TrimLeft(Tail(s))
    ELSE s

RECURSIVE TrimRight(_)
TrimRight(s) ==
    IF s = <<>> THEN <<>>
    ELSE IF s[Len(s)] \in WhiteSpace THEN TrimRight(SubSeq(s, 1, Len(s) - 1))
    ELSE s

\* mutant: the text is tested as it is given
TrimNone(s) == s

\* tciInputText.trim()
Trim(s) == TrimRight(TrimLeft(s))

\* mutant: startsWith in place of includes
IncludesAtStart(s, kw) ==
    Len(kw) <= Len(s) /\ SubSeq(s, 1, Len(kw)) = kw

\* mutant: only the first character of the keyword is looked for
IncludesFirstChar(s, kw) ==
    \E i \in DOMAIN s : s[i] = kw[1]

\* tciInputText.includes(kw)
Includes(s, kw) ==
    \E i \in 1..(Len(s) + 1) :
        /\ i + Len(kw) - 1 <= Len(s)
        /\ SubSeq(s, i, i + Len(kw) - 1) = kw

IsQuote(c) == c = "\""
NotQuote(c) == ~IsQuote(c)

\* .replace(/"/g, '')
StripQuotes(s) == SelectSeq(s, NotQuote)

----------------------------------------------------------------------------
(* Fixed texts of the source *)

KwGongchaek  == <<"gong", "chaek">>
KwYeonpil    == <<"yeon", "pil">>
KwMungujeom  == <<"mun", "gu", "jeom">>
KwGwaja      == <<"gwa", "ja">>
KwTteokbokki == <<"tteok", "bokk", "i">>

SetA == {KwGongchaek, KwYeonpil, KwMungujeom}
SetB == {KwGwaja, KwTteokbokki}

SeedText     == <<"annyeong!", " ", "oneul", " ", "hagyongpum", " ", "san", " ", "geo", " ", "isseo?">>
ReplyGeneric == <<"algesseo!", " ", "girokhaedulge.">>
ReplySupplies == <<"o,", " ", "gongbu", " ", "yeolsimhi", " ", "haryeonaboda!", " ", "[hagyongpum]">>
ReplySnack   == <<"masitge", " ", "meogeonni?", " ", "[gansik]">>

SeedMessages == << [sender |-> "bot", text |-> SeedText] >>

\* line 20: the id of the seed message
SeedId == 1

\* line 183: the delay of the reply timer, in ms
ReplyDelay == 1500

\* what Date.now() reads when the script is loaded
LoadTime == 2000

----------------------------------------------------------------------------
(* The page *)

ChatContainer == "tci-chat-messages"
QuickInput    == "tci-quick-input"
ChatSendBtn   == "tci-chat-send"

ChatElements == {ChatContainer, QuickInput, ChatSendBtn}

MenuToggle == "tci-mobile-menu-toggle"
MobileMenu == "tci-mobile-menu"
MenuLink   == "tci-mobile-menu-link"

MenuElements == {MenuToggle, MobileMenu, MenuLink}

PolicyModal   == "tci-policy-modal"
ModalTitle    == "tci-modal-title"
ModalContent  == "tci-modal-content"
ModalBackdrop == "tci-modal-backdrop"
ModalClose    == "tci-modal-close"
ModalConfirm  == "tci-modal-confirm"
OpenTerms     == "tci-open-terms"
OpenPrivacy   == "tci-open-privacy"

CloseControls == {ModalBackdrop, ModalClose, ModalConfirm}
ModalElements == {PolicyModal, ModalTitle, ModalContent, OpenTerms, OpenPrivacy}
                     \cup CloseControls

\* script.js: the three buttons it looks up
KakaoLogin == "kakao-login"
KidsLogin  == "kids-login"
AddAccount == "add-account"

RedirectButtons == {KakaoLogin, KidsLogin, AddAccount}

\* the elements of the page that the chat demo does not look up
WidgetElements == MenuElements \cup ModalElements \cup RedirectButtons

\* markup of a container that is not in the page
NoMarkup == "no-element"

\* texts the page may give #tci-quick-input; the template wraps them in quotes
QuickTexts ==
    { <<"\"", "mun", "gu", "jeom", "e", "seo", " ", "gong", "chaek", " ", "sass", "eo", "\"">>,
      <<"\"", "\"">> }

\* the pages the script is loaded in: the landing page, and pages that lack
\* one of the elements the chat demo looks up
Pages ==
    { [dom |-> ChatElements \cup WidgetElements, quickText |-> q] : q \in QuickTexts }
    \cup { [dom |-> (ChatElements \ {e}) \cup WidgetElements, quickText |-> IF e = QuickInput THEN <<>> ELSE q] :
             e \in {ChatContainer, QuickInput}, q \in {CHOOSE t \in QuickTexts : Len(t) > 2} }

\* texts a caller of window.tciMoamoaApp.tciHandleChatSend may pass
Texts ==
    { <<>>,
      <<" ">>,
      <<" ", "\t">>,
      <<"x">>,
      <<"mun", "gu">>,
      <<"gong", " ", "chaek">>,
      <<"chaek", "gong">>,
      <<"gwa", "gwa", "ja">>,
      KwGongchaek,
      KwYeonpil,
      <<"x">> \o KwMungujeom,
      KwGwaja \o <<"x">>,
      <<" ">> \o KwTteokbokki \o <<" ">>,
      KwGwaja \o <<" ">> \o KwYeonpil,
      KwMungujeom \o KwTteokbokki }

----------------------------------------------------------------------------
(* Rendering *)

\* one block of markup per message, then the typing indicator
RECURSIVE MessageBlocks(_)
MessageBlocks(msgs) ==
    IF msgs = <<>> THEN <<>>
    ELSE LET tciMsg == Head(msgs)
         IN  << IF tciMsg.sender = "user"
                THEN [block |-> "user", text |-> tciMsg.text]
                ELSE [block |-> "bot", text |-> tciMsg.text] >>
             \o MessageBlocks(Tail(msgs))

TypingBlock == [block |-> "typing", text |-> <<"ipryeok", " ", "jung...">>]

\* mutant: the typing indicator is left out
RenderHtmlNoTyping(msgs, typing) == MessageBlocks(msgs)

\* mutant: the indicator is put before the messages
RenderHtmlTypingFirst(msgs, typing) ==
    (IF typing THEN <<TypingBlock>> ELSE <<>>) \o MessageBlocks(msgs)

\* the local tciRenderMessages of tciInitChatDemo: the string it builds
tciRenderLocalHtml(msgs, typing) ==
    MessageBlocks(msgs) \o (IF typing THEN <<TypingBlock>> ELSE <<>>)

\* tciMoamoaApp.tciRenderMessages: the string it builds
tciRenderHtml(msgs, typing) ==
    MessageBlocks(msgs) \o (IF typing THEN <<TypingBlock>> ELSE <<>>)

\* $tciChatMessages.html(tciHtml) sets the markup of every matched element,
\* and of none when the container is not in the page
SetHtml(markup) == IF ChatContainer \in dom THEN markup ELSE html

\* $tciChatMessages[0].scrollHeight: [0] of an empty jQuery set is undefined,
\* and reading a property of undefined raises a TypeError
RenderThrows == ChatContainer \notin dom

----------------------------------------------------------------------------
(* The chat *)

\* mutant: && in place of ||
SendRejectedBoth(tciInputText) ==
    Trim(tciInputText) = <<>> /\ tciIsTyping

\* mutant: the pending reply is not looked at
SendRejectedBlankOnly(tciInputText) ==
    Trim(tciInputText) = <<>>

\* the page is the one the scripts were loaded in: no redirect has left it
Here == "landing"
Loaded == location = Here

\* line 150: the call returns at once
SendRejected(tciInputText) ==
    Trim(tciInputText) = <<>> \/ tciIsTyping

\* mutant: Set B is checked before Set A
tciBotResponseSnackFirst(tciInputText) ==
    IF \E kw \in SetB : Includes(tciInputText, kw) THEN ReplySnack
    ELSE IF \E kw \in SetA : Includes(tciInputText, kw) THEN ReplySupplies
    ELSE ReplyGeneric

\* lines 167-173: the reply the callback chooses
tciBotResponse(tciInputText) ==
    IF \E kw \in SetA : Includes(tciInputText, kw) THEN ReplySupplies
    ELSE IF \E kw \in SetB : Includes(tciInputText, kw) THEN ReplySnack
    ELSE ReplyGeneric

\* mutant: the trimmed text is stored
tciUserMsgTrimmed(tciInputText) == [sender |-> "user", text |-> Trim(tciInputText)]

\* lines 155-159: the message object of a submission (its id is in tciMsgIds)
tciUserMsg(tciInputText) == [sender |-> "user", text |-> tciInputText]

\* mutant: the reply is pushed as a user message
tciBotMsgAsUser(tciInputText) == [sender |-> "user", text |-> tciBotResponse(tciInputText)]

\* lines 175-179: the message object of a reply (its id is in tciMsgIds)
tciBotMsg(tciInputText) == [sender |-> "bot", text |-> tciBotResponse(tciInputText)]

\* mutant: unshift in place of push
Unshift(msgs, m) == <<m>> \o msgs

\* Array.prototype.push
Push(msgs, m) == Append(msgs, m)

UserCount == Cardinality({i \in DOMAIN tciChatMessages : tciChatMessages[i].sender = "user"})

\* the session offers submissions until MaxSends of them were accepted, and
\* while the last of them is pending
SendOffered == UserCount < MaxSends \/ (UserCount = MaxSends /\ tciIsTyping)

\* a text with no character other than white space
IsBlank(s) == \A i \in DOMAIN s : s[i] \in WhiteSpace

\* history record of a handler run: who ran, whether the text it was given
\* was blank, whether a reply was pending when it began, whether it called a
\* render function, how it ended
Op(op, text, rendered, outcome) ==
    [op |-> op, blank |-> IsBlank(text), busy |-> tciIsTyping,
     rendered |-> rendered, outcome |-> outcome]

NoSubmission == [before |-> <<>>, text |-> <<>>]

\* line 156: the id of a submission
tciUserId == now

\* line 176: the id of a reply, the callback running at time t
tciBotId(t) == t + 1

\* tciMoamoaApp.tciHandleChatSend, called by `op`
tciHandleChatSend(tciInputText, op) ==
    IF SendRejected(tciInputText)
    THEN /\ UNCHANGED <<chatVars, tciMsgIds, submitted>>
         /\ lastOp' = Op(op, tciInputText, FALSE, "ignored")
    ELSE /\ tciChatMessages' = Push(tciChatMessages, tciUserMsg(tciInputText))
         /\ tciMsgIds' = Push(tciMsgIds, tciUserId)
         /\ tciIsTyping' = TRUE
         /\ html' = SetHtml(tciRenderHtml(tciChatMessages', tciIsTyping'))
         /\ submitted' = [before |-> tciChatMessages, text |-> tciInputText]
         /\ IF RenderThrows
            THEN \* the TypeError leaves the handler before setTimeout
                 /\ timers' = timers
                 /\ lastOp' = Op(op, tciInputText, TRUE, "threw")
            ELSE /\ timers' = Append(timers, [text |-> tciInputText, due |-> now + ReplyDelay])
                 /\ lastOp' = Op(op, tciInputText, TRUE, "ok")

\* a script calls window.tciMoamoaApp.tciHandleChatSend(text)
CallHandleChatSend ==
    /\ Loaded
    /\ SendOffered
    /\ \E tciInputText \in Texts : tciHandleChatSend(tciInputText, "call")
    /\ UNCHANGED <<pageVars, widgetVars, ready, handlers, now>>

\* click on #tci-quick-input
QuickInputClick ==
    /\ Loaded
    /\ SendOffered
    /\ "chat" \in handlers
    /\ QuickInput \in dom
    /\ tciHandleChatSend(StripQuotes(quickText), "quickClick")
    /\ UNCHANGED <<pageVars, widgetVars, ready, handlers, now>>

\* click on #tci-chat-send
ChatSendClick ==
    /\ Loaded
    /\ SendOffered
    /\ "chat" \in handlers
    /\ ChatSendBtn \in dom
    /\ LET tciInputText == StripQuotes(IF QuickInput \in dom THEN quickText ELSE <<>>)
       IN  IF Trim(tciInputText) # <<>>
           THEN tciHandleChatSend(tciInputText, "sendClick")
           ELSE /\ UNCHANGED <<chatVars, tciMsgIds, submitted>>
                /\ lastOp' = Op("sendClick", tciInputText, FALSE, "ignored")
    /\ UNCHANGED <<pageVars, widgetVars, ready, handlers, now>>

\* the delay of the oldest timer has passed and its callback runs
TimerFire ==
    /\ Loaded
    /\ timers # <<>>
    /\ LET tciInputText == Head(timers).text
       IN  /\ timers' = Tail(timers)
           /\ now' = IF now < Head(timers).due THEN Head(timers).due ELSE now
           /\ tciChatMessages' = Push(tciChatMessages, tciBotMsg(tciInputText))
           /\ tciMsgIds' = Push(tciMsgIds, tciBotId(now'))
           /\ tciIsTyping' = FALSE
           /\ html' = SetHtml(tciRenderHtml(tciChatMessages', tciIsTyping'))
           /\ lastOp' = Op("timer", tciInputText, TRUE, IF RenderThrows THEN "threw" ELSE "ok")
    /\ UNCHANGED <<pageVars, widgetVars, ready, handlers, submitted>>

\* the newest id given so far
NewestId == tciMsgIds[Len(tciMsgIds)]

\* a millisecond passes with no handler running.  It is offered while no
\* reply is pending (the wait for a pending reply is part of TimerFire),
\* while the session offers a further submission, and until the clock has
\* passed the newest id: later readings compare with the ids the same way
TimePasses ==
    /\ timers = <<>>
    /\ Loaded
    /\ SendOffered
    /\ now <= NewestId
    /\ now' = now + 1
    /\ UNCHANGED <<pageVars, widgetVars, ready, handlers, chatVars, tciMsgIds, histVars>>

----------------------------------------------------------------------------
(* The mobile menu *)

NoText == <<"-">>

\* mutant: a menu link leaves the flag as it was
MenuLinkKeepsFlag(open) == open

\* line 72: the flag after a click on a menu link
MenuLinkFlag(open) == FALSE

\* lines 57, 62, 71: the icon the toggle button is given
IconClose == "x"
IconMenu  == "menu"

\* lines 51-66: click on #tci-mobile-menu-toggle
ToggleClick ==
    /\ Loaded
    /\ "menu" \in handlers
    /\ MenuToggle \in dom
    /\ tciMobileMenuOpen' = ~tciMobileMenuOpen
    /\ IF tciMobileMenuOpen'
       THEN /\ menuHidden' = IF MobileMenu \in dom THEN FALSE ELSE menuHidden
            /\ toggleIcon' = IconClose
       ELSE /\ menuHidden' = IF MobileMenu \in dom THEN TRUE ELSE menuHidden
            /\ toggleIcon' = IconMenu
    /\ lastOp' = Op("toggleClick", NoText, FALSE, "ok")
    /\ UNCHANGED <<pageVars, ready, handlers, chatState, policyData, modalVars, location>>

\* lines 69-77: click on a .tci-mobile-menu-link
MenuLinkClick ==
    /\ Loaded
    /\ "menu" \in handlers
    /\ MenuLink \in dom
    /\ menuHidden' = IF MobileMenu \in dom THEN TRUE ELSE menuHidden
    /\ toggleIcon' = IF MenuToggle \in dom THEN IconMenu ELSE toggleIcon
    /\ tciMobileMenuOpen' = MenuLinkFlag(tciMobileMenuOpen)
    /\ lastOp' = Op("menuLinkClick", NoText, FALSE, "ok")
    /\ UNCHANGED <<pageVars, ready, handlers, chatState, policyData, modalVars, location>>

----------------------------------------------------------------------------
(* The policy modal *)

\* the value of a property an object does not have
Undefined == "undefined"

TermsText   == "terms text of the page"
PrivacyText == "privacy text of the page"

\* line 237: the two titles
TermsTitle   == "i-yong-yak-gwan"
PrivacyTitle == "gae-in-jeong-bo-cheo-ri-bang-chim"

\* values the page may leave in window.tciMoamoaPolicyData: no global at
\* all, null, and a value whose properties can be read (an object; a number
\* or a string reads as a value with neither property)
PolicyUndefined == [kind |-> "undefined", terms |-> Undefined, privacy |-> Undefined]
PolicyNull      == [kind |-> "null", terms |-> Undefined, privacy |-> Undefined]
PolicyObject(terms, privacy) == [kind |-> "value", terms |-> terms, privacy |-> privacy]

PolicyDatas ==
    { PolicyUndefined,
      PolicyNull,
      PolicyObject(TermsText, PrivacyText),
      PolicyObject(TermsText, Undefined),
      PolicyObject(Undefined, Undefined) }

\* line 237
tciTitle(tciType) == IF tciType = "terms" THEN TermsTitle ELSE PrivacyTitle

\* lines 241-243: the property read from the data
PolicyField(tciType) == IF tciType = "terms" THEN policyData.terms ELSE policyData.privacy

\* line 240: typeof null is "object", so the guard lets null through and
\* the property read of lines 241-243 raises a TypeError
OpenThrows == policyData.kind = "null"

\* lines 238-244
tciContent(tciType) ==
    IF policyData.kind # "undefined" THEN PolicyField(tciType) ELSE ""

\* jQuery .text(value): sets the text of the matched elements; with no
\* element matched, or with the value undefined, it sets nothing
SetText(present, old, value) ==
    IF ~present \/ value = Undefined THEN old ELSE value

\* lines 236-255, called by the click handlers of lines 264-273
tciOpenModal(tciType, op) ==
    /\ lastOpened' = tciType
    /\ IF OpenThrows
       THEN /\ UNCHANGED <<modalHidden, modalTitle, modalContent, bodyOverflow>>
            /\ lastOp' = Op(op, NoText, FALSE, "threw")
       ELSE /\ modalTitle' = SetText(ModalTitle \in dom, modalTitle, tciTitle(tciType))
            /\ modalContent' = SetText(ModalContent \in dom, modalContent, tciContent(tciType))
            /\ modalHidden' = IF PolicyModal \in dom THEN FALSE ELSE modalHidden
            /\ bodyOverflow' = "hidden"
            /\ lastOp' = Op(op, NoText, FALSE, "ok")

\* lines 264-267: click on #tci-open-terms
OpenTermsClick ==
    /\ Loaded
    /\ "modal" \in handlers
    /\ OpenTerms \in dom
    /\ tciOpenModal("terms", "openTerms")
    /\ UNCHANGED <<pageVars, ready, handlers, chatState, menuVars, policyData, location>>

\* lines 270-273: click on #tci-open-privacy
OpenPrivacyClick ==
    /\ Loaded
    /\ "modal" \in handlers
    /\ OpenPrivacy \in dom
    /\ tciOpenModal("privacy", "openPrivacy")
    /\ UNCHANGED <<pageVars, ready, handlers, chatState, menuVars, policyData, location>>

\* lines 258-261 and 276-278: click on the backdrop, the close button or the
\* confirm button
tciCloseModal ==
    /\ Loaded
    /\ "modal" \in handlers
    /\ \E el \in CloseControls : el \in dom
    /\ modalHidden' = IF PolicyModal \in dom THEN TRUE ELSE modalHidden
    /\ bodyOverflow' = "unset"
    /\ lastOp' = Op("closeModal", NoText, FALSE, "ok")
    /\ UNCHANGED <<pageVars, ready, handlers, chatState, menuVars, policyData,
                   modalTitle, modalContent, lastOpened, location>>

----------------------------------------------------------------------------
(* script.js: the redirect buttons *)

KakaoUrl   == "https://kauth.kakao.com/oauth/authorize"
LoginPath  == "/login/"
SignupPath == "/signup/"

\* mutant: the two internal paths are exchanged
RedirectTargetSwapped(button) ==
    IF button = KakaoLogin THEN KakaoUrl
    ELSE IF button = KidsLogin THEN SignupPath
    ELSE LoginPath

\* script.js lines 4, 11, 18: the address each listener sets
RedirectTarget(button) ==
    IF button = KakaoLogin THEN KakaoUrl
    ELSE IF button = KidsLogin THEN LoginPath
    ELSE SignupPath

\* script.js lines 2-3, 9-10, 16-17: a click on a button that was found and
\* given its listener
RedirectClick(button) ==
    /\ Loaded
    /\ button \in dom
    /\ location' = RedirectTarget(button)
    /\ lastOp' = Op(button, NoText, FALSE, "ok")
    /\ UNCHANGED <<pageVars, ready, handlers, chatState, menuVars, policyData, modalVars>>

RedirectStep == \E button \in RedirectButtons : RedirectClick(button)

\* the widgets as the page and line 16 leave them before any click
WidgetInit ==
    /\ tciMobileMenuOpen = FALSE
    /\ menuHidden = TRUE
    /\ toggleIcon = IconMenu
    /\ modalHidden = TRUE
    /\ modalTitle = ""
    /\ modalContent = ""
    /\ bodyOverflow = ""
    /\ location = Here
    /\ lastOpened = "none"

----------------------------------------------------------------------------
(* Page initialisation *)

\* the $(document).ready handler: the four initializers in order; an
\* initializer that throws ends the handler
DocumentReady ==
    /\ Loaded
    /\ ~ready
    /\ ready' = TRUE
    /\ html' = SetHtml(tciRenderLocalHtml(tciChatMessages, tciIsTyping))
    /\ IF RenderThrows
       THEN /\ handlers' = {"menu"}
            /\ lastOp' = Op("ready", <<"-">>, TRUE, "threw")
       ELSE /\ handlers' = {"menu", "chat", "modal", "scroll"}
            /\ lastOp' = Op("ready", <<"-">>, TRUE, "ok")
    /\ UNCHANGED <<pageVars, widgetVars, tciChatMessages, tciIsTyping, timers, clockVars, submitted>>

----------------------------------------------------------------------------

Init ==
    /\ \E page \in Pages : dom = page.dom /\ quickText = page.quickText
    /\ ready = FALSE
    /\ handlers = {}
    /\ tciChatMessages = SeedMessages
    /\ tciIsTyping = FALSE
    /\ timers = <<>>
    /\ now = LoadTime
    /\ tciMsgIds = <<SeedId>>
    /\ html = IF ChatContainer \in dom THEN <<>> ELSE NoMarkup
    /\ lastOp = Op("load", <<"-">>, FALSE, "ok")
    /\ submitted = NoSubmission
    /\ policyData = PolicyObject(TermsText, PrivacyText)
    /\ WidgetInit

Next ==
    \/ DocumentReady
    \/ CallHandleChatSend
    \/ QuickInputClick
    \/ ChatSendClick
    \/ TimerFire
    \/ TimePasses

Spec == Init /\ [][Next]_vars

\* the event loop runs a timer callback that is due
FairSpec == Spec /\ WF_vars(TimerFire)

\* pages for the menu, the modal and the redirect buttons: the landing page,
\* and pages that lack some of the elements
WidgetDoms ==
    { (ChatElements \cup WidgetElements) \ missing :
        missing \in { {}, {MobileMenu}, {ModalContent}, {KakaoLogin},
                      {KidsLogin, AddAccount}, {ChatContainer} } }

\* the chat starts as in Init; the page and the policy data vary
WidgetPageInit ==
    /\ dom \in WidgetDoms
    /\ quickText = CHOOSE t \in QuickTexts : TRUE
    /\ policyData \in PolicyDatas
    /\ ready = FALSE
    /\ handlers = {}
    /\ tciChatMessages = SeedMessages
    /\ tciIsTyping = FALSE
    /\ timers = <<>>
    /\ now = LoadTime
    /\ tciMsgIds = <<SeedId>>
    /\ html = IF ChatContainer \in dom THEN <<>> ELSE NoMarkup
    /\ lastOp = Op("load", <<"-">>, FALSE, "ok")
    /\ submitted = NoSubmission
    /\ WidgetInit

\* the ready handler and the handlers of the menu, the modal and the
\* redirect buttons
WidgetNext ==
    \/ DocumentReady
    \/ ToggleClick
    \/ MenuLinkClick
    \/ OpenTermsClick
    \/ OpenPrivacyClick
    \/ tciCloseModal
    \/ RedirectStep

WidgetSpec == WidgetPageInit /\ [][WidgetNext]_vars

----------------------------------------------------------------------------
(* Vocabulary of the claims *)

SendOps == {"call", "quickClick", "sendClick"}

\* the step is a run of tciHandleChatSend or of a click handler that leads to it
SendStep == lastOp'.op \in SendOps /\ lastOp' # lastOp

\* kw occurs in s as a contiguous run of characters
HasKeyword(s, kw) ==
    \E k \in 0..Len(s) :
        /\ k + Len(kw) <= Len(s)
        /\ \A j \in 1..Len(kw) : s[k + j] = kw[j]

HasSetA(s) == \E kw \in SetA : HasKeyword(s, kw)
HasSetB(s) == \E kw \in SetB : HasKeyword(s, kw)

IsPrefix(a, b) == Len(a) <= Len(b) /\ SubSeq(b, 1, Len(a)) = a

ReplyCount == Cardinality({i \in DOMAIN tciChatMessages : i > 1 /\ tciChatMessages[i].sender = "bot"})

----------------------------------------------------------------------------
(* Claims *)

\* C1: a submission made while a reply is pending is rejected: it appends no
\* message, leaves tciIsTyping true and schedules no further timer.
C1_RejectedWhileTyping ==
    [][ (tciIsTyping /\ SendStep) =>
            /\ tciChatMessages' = tciChatMessages
            /\ tciIsTyping'
            /\ timers' = timers ]_vars

\* C1 witness: a non-blank text was offered while the first submission's timer
\* had not fired, and the list holds the one user message.
C1_Witness ==
    /\ lastOp.op = "call" /\ lastOp.busy /\ ~lastOp.blank /\ lastOp.outcome = "ignored"
    /\ Len(timers) = 1
    /\ UserCount = 1

\* C2: at most one reply is pending: the scheduled timers are 0 or 1, and 1
\* exactly when tciIsTyping is true.
C2_OnePendingReply ==
    /\ Len(timers) <= 1
    /\ (Len(timers) = 1) <=> tciIsTyping

\* C3: every accepted submission's callback runs: a state with tciIsTyping true
\* is followed by one with tciIsTyping false and one more bot message.
C3_ReplyEventuallyCompletes ==
    \A n \in 0..MaxSends :
        (tciIsTyping /\ ReplyCount = n) ~> (~tciIsTyping /\ ReplyCount = n + 1)

\* C4: when the reply callback of a submission has run, tciIsTyping is false and
\* the list is the list before the submission, then the user message with the
\* submitted text, then one bot message.
C4_CompletionAddsTwo ==
    lastOp.op = "timer" =>
        /\ ~tciIsTyping
        /\ Len(tciChatMessages) = Len(submitted.before) + 2
        /\ SubSeq(tciChatMessages, 1, Len(submitted.before)) = submitted.before
        /\ tciChatMessages[Len(submitted.before) + 1] = [sender |-> "user", text |-> submitted.text]
        /\ tciChatMessages[Len(submitted.before) + 2].sender = "bot"

\* C4 witness: the second submission of a session has completed; its text
\* begins and ends with a space.
C4_Witness ==
    /\ lastOp.op = "timer"
    /\ Len(submitted.before) = 3
    /\ Len(tciChatMessages) = 5
    /\ submitted.text # <<>> /\ Head(submitted.text) = " "

\* C5: a submission of an empty or all-white-space text changes nothing, schedules
\* nothing, renders nothing and raises no error, pending reply or not.
C5_BlankIsNoOp ==
    [][ (SendStep /\ lastOp'.blank) =>
            /\ UNCHANGED <<tciChatMessages, tciIsTyping, timers, html>>
            /\ ~lastOp'.rendered
            /\ lastOp'.outcome = "ignored" ]_vars

\* C5 witness: a blank text was offered by a direct call while a reply was pending.
C5_Witness ==
    /\ lastOp.op = "call" /\ lastOp.blank /\ lastOp.busy /\ lastOp.outcome = "ignored"

\* C6: a user message whose text holds a Set A keyword is answered by the
\* school-supplies acknowledgment, a Set B keyword in the text or not.
C6_SetAWins ==
    \A i \in DOMAIN tciChatMessages :
        ( /\ tciChatMessages[i].sender = "user"
          /\ HasSetA(tciChatMessages[i].text)
          /\ i < Len(tciChatMessages) )
        => tciChatMessages[i + 1] = [sender |-> "bot", text |-> ReplySupplies]

\* C6 witness: a text with a Set B keyword before a Set A keyword was answered.
C6_Witness ==
    \E i \in DOMAIN tciChatMessages :
        /\ tciChatMessages[i].sender = "user"
        /\ HasSetA(tciChatMessages[i].text) /\ HasSetB(tciChatMessages[i].text)
        /\ i < Len(tciChatMessages)
        /\ tciChatMessages[i + 1].text = ReplySupplies

\* C7: a user message whose text holds a Set B keyword and no Set A keyword is
\* answered by the snack acknowledgment.
C7_SetBReply ==
    \A i \in DOMAIN tciChatMessages :
        ( /\ tciChatMessages[i].sender = "user"
          /\ HasSetB(tciChatMessages[i].text) /\ ~HasSetA(tciChatMessages[i].text)
          /\ i < Len(tciChatMessages) )
        => tciChatMessages[i + 1] = [sender |-> "bot", text |-> ReplySnack]

\* C7 witness: a text holding "tteokbokki" after a space was answered.
C7_Witness ==
    \E i \in DOMAIN tciChatMessages :
        /\ tciChatMessages[i].sender = "user"
        /\ HasKeyword(tciChatMessages[i].text, KwTteokbokki)
        /\ ~HasSetA(tciChatMessages[i].text)
        /\ Head(tciChatMessages[i].text) = " "
        /\ i < Len(tciChatMessages)
        /\ tciChatMessages[i + 1].text = ReplySnack

C9_AppendOnly ==
    /\ tciChatMessages = SeedMessages
    /\ [][IsPrefix(tciChatMessages, tciChatMessages')]_vars

\* C9 witness: a submission was answered, a second one was accepted, and a
\* third one was turned down while the second was pending.
C9_Witness ==
    /\ Len(tciChatMessages) = 4
    /\ lastOp.op \in SendOps /\ lastOp.busy /\ lastOp.outcome = "ignored"

\* the reply the specification gives a text
ExpectedReply(s) ==
    IF HasSetA(s) THEN ReplySupplies
    ELSE IF HasSetB(s) THEN ReplySnack
    ELSE ReplyGeneric

\* C10: the n-th user message is at place 2n, the n-th reply at place 2n+1, and
\* the reply's text is the one for the user message before it.
C10_RepliesInOrder ==
    \A i \in DOMAIN tciChatMessages :
        /\ (i > 1 /\ i % 2 = 0) => tciChatMessages[i].sender = "user"
        /\ (i > 1 /\ i % 2 = 1) =>
               /\ tciChatMessages[i].sender = "bot"
               /\ tciChatMessages[i].text = ExpectedReply(tciChatMessages[i - 1].text)

\* C10 witness: two answered submissions, the first with a Set B keyword and
\* the second with none, each followed by its own reply.
C10_Witness ==
    /\ Len(tciChatMessages) = 5
    /\ tciChatMessages[3].text # tciChatMessages[5].text
    /\ tciChatMessages[3].text = ReplySnack
    /\ tciChatMessages[5].text = ReplyGeneric

\* C11: the ids of the list are pairwise distinct and strictly increasing in
\* list order.
C11_IdsIncrease ==
    \A i, j \in DOMAIN tciMsgIds : i < j => tciMsgIds[i] < tciMsgIds[j]

\* C12: missing elements make no handler fail: no handler run ends in an
\* error, the ready handler binds the policy modal and the smooth scroll, and
\* tciIsTyping is never true with no reply timer pending.
C12_MissingElementsAreSilent ==
    /\ lastOp.outcome # "threw"
    /\ ready => {"modal", "scroll"} \subseteq handlers
    /\ ~(tciIsTyping /\ timers = <<>>)

\* the markup the specification gives a chat state
ExpectedMarkup(msgs, typing) ==
    [i \in 1..(Len(msgs) + (IF typing THEN 1 ELSE 0)) |->
        IF i <= Len(msgs)
        THEN [block |-> IF msgs[i].sender = "user" THEN "user" ELSE "bot", text |-> msgs[i].text]
        ELSE TypingBlock]

\* C13: the markup a render writes has one block per message, oldest first,
\* styled by sender, then the typing indicator exactly when tciIsTyping is
\* true; a render by itself (the one of the ready handler) changes neither the
\* list nor the flag.
C13_RenderIsFunctionOfState ==
    /\ []( (ChatContainer \in dom /\ lastOp.rendered) =>
              /\ Len(html) = Len(tciChatMessages) + (IF tciIsTyping THEN 1 ELSE 0)
              /\ \A i \in DOMAIN tciChatMessages :
                     /\ html[i].text = tciChatMessages[i].text
                     /\ html[i].block = "user" <=> tciChatMessages[i].sender = "user"
                     /\ html[i].block = "bot" <=> tciChatMessages[i].sender # "user"
              /\ tciIsTyping => html[Len(html)] = TypingBlock )
    /\ [][ (lastOp'.op = "ready") => UNCHANGED <<tciChatMessages, tciIsTyping>> ]_vars

\* C13 witness: the markup written while a second reply is pending: four
\* message blocks and the indicator.
C13_Witness ==
    /\ ChatContainer \in dom /\ lastOp.rendered /\ tciIsTyping
    /\ Len(tciChatMessages) = 4
    /\ Len(html) = 5
    /\ html[4].block = "user" /\ html[5].block = "typing"

\* the text the page gives for the type opened last, Undefined when the data
\* is missing, is no object or lacks the field
RequestedText ==
    IF policyData.kind # "value" THEN Undefined
    ELSE IF lastOpened = "terms" THEN policyData.terms
    ELSE policyData.privacy

OpenOps == {"openTerms", "openPrivacy"}

TitleOf(type) ==
    CASE type = "terms"   -> "i-yong-yak-gwan"
      [] type = "privacy" -> "gae-in-jeong-bo-cheo-ri-bang-chim"
      [] OTHER            -> ""

\* C14: an open click on a page whose policy data is missing, is no object or
\* lacks the requested field raises no error, shows the modal with the title
\* of the requested type, and leaves the content empty.
C14_MalformedDataTolerated ==
    (lastOp.op \in OpenOps /\ RequestedText = Undefined) =>
        /\ lastOp.outcome = "ok"
        /\ PolicyModal \in dom => ~modalHidden
        /\ ModalTitle \in dom => modalTitle = TitleOf(lastOpened)
        /\ ModalContent \in dom => modalContent = ""

DestinationOf(button) ==
    CASE button = "kakao-login" -> "https://kauth.kakao.com/oauth/authorize"
      [] button = "kids-login"  -> "/login/"
      [] button = "add-account" -> "/signup/"
      [] OTHER                  -> "landing"

\* C15: every redirect button the page holds answers a click, whichever of
\* the others are absent; the address is left only by such a click, which
\* raises no error and sets the destination of its own button (.kakao-login
\* the OAuth URL, .kids-login /login/, .add-account /signup/); a button the
\* page lacks is never the one that acted.
C15_RedirectsAreIndependent ==
    /\ \A button \in RedirectButtons :
          (Loaded /\ button \in dom) => ENABLED RedirectClick(button)
    /\ lastOp.op \in RedirectButtons =>
          /\ lastOp.op \in dom
          /\ lastOp.outcome = "ok"
          /\ location = DestinationOf(lastOp.op)
    /\ location # Here => lastOp.op \in RedirectButtons

\* C15 witness: on a page without .kakao-login, .kids-login was clicked and
\* the address is /login/.
C15_Witness ==
    /\ KakaoLogin \notin dom
    /\ lastOp.op = KidsLogin
    /\ location = "/login/"

\* C16: the senders alternate from the seed bot message on, the last message
\* is a user message exactly when tciIsTyping is true, and the length is odd
\* when idle and even while a reply is pending.
C16_SendersAlternate ==
    /\ \A i \in DOMAIN tciChatMessages :
           tciChatMessages[i].sender = (IF i % 2 = 1 THEN "bot" ELSE "user")
    /\ (tciChatMessages[Len(tciChatMessages)].sender = "user") <=> tciIsTyping
    /\ (Len(tciChatMessages) % 2 = 0) <=> tciIsTyping

\* C16 witness: a second submission is pending after an answered one.
C16_Witness ==
    /\ tciIsTyping
    /\ Len(tciChatMessages) = 4
    /\ Len(timers) = 1

\* C17: once the widget is initialised the markup in the container is the
\* render of the current list and flag, by the local and by the global render
\* function alike.
C17_MarkupNeverStale ==
    (ChatContainer \in dom /\ ready) =>
        /\ html = ExpectedMarkup(tciChatMessages, tciIsTyping)
        /\ tciRenderLocalHtml(tciChatMessages, tciIsTyping) = html
        /\ tciRenderHtml(tciChatMessages, tciIsTyping) = html

\* C17 witness: the ready handler has just run while a reply was pending: the
\* local render wrote the seed, the user message and the indicator.
C17_Witness ==
    /\ ChatContainer \in dom /\ ready
    /\ lastOp.op = "ready"
    /\ tciIsTyping
    /\ Len(html) = 3

\* C18: the menu is visible exactly when tciMobileMenuOpen is true and the
\* toggle button shows the close icon exactly then; a toggle click flips the
\* flag; after a menu-link click the flag is false and the menu hidden,
\* whatever they were before.
C18_MenuFollowsFlag ==
    /\ [](MobileMenu \in dom => (~menuHidden <=> tciMobileMenuOpen))
    /\ [](MenuToggle \in dom => (toggleIcon = "x" <=> tciMobileMenuOpen))
    /\ [](lastOp.op = "menuLinkClick" =>
            ~tciMobileMenuOpen /\ menuHidden /\ toggleIcon = "menu")
    /\ [][lastOp'.op = "toggleClick" => tciMobileMenuOpen' = ~tciMobileMenuOpen]_vars

\* C18 witness: a toggle click has just opened the menu: the flag is true and
\* the menu is visible with the close icon.
C18_Witness ==
    /\ MobileMenu \in dom
    /\ lastOp.op = "toggleClick"
    /\ tciMobileMenuOpen /\ ~menuHidden /\ toggleIcon = "x"

\* C19: on a page that holds the modal, body overflow is "hidden" exactly
\* when the modal is visible, and a visible modal shows the title and the
\* text of the type opened last (no text where the page gives none).
C19_ModalShowsLastOpened ==
    ModalElements \subseteq dom =>
        /\ bodyOverflow = "hidden" <=> ~modalHidden
        /\ ~modalHidden =>
              /\ modalTitle = TitleOf(lastOpened)
              /\ modalContent = (IF RequestedText = Undefined THEN "" ELSE RequestedText)

====
